---- MODULE Spec2Model ----
(***************************************************************************)
(* A model of ozo's type system (include/ozo/type_traits.h):               *)
(*   - the type traits table built by the OZO_PG_DEFINE_TYPE... macros,    *)
(*   - the OID map (register_types, set_type_oid, type_oid, accepts_oid,   *)
(*     empty),                                                             *)
(*   - the Nullable protocol (is_null, unwrap_nullable, allocate_nullable, *)
(*     init_nullable, reset_nullable) over optionals and smart pointers,   *)
(*   - size_of.                                                            *)
(*                                                                         *)
(* A C++ type is a sequence of template names, outermost first:            *)
(*   <<"std::vector", "boost::optional", "int64_t">>                       *)
(* is std::vector<boost::optional<int64_t>>.  A static_assert (or any      *)
(* other compile error) is the guard of the action that models the call:   *)
(* a program holding a rejected call does not exist.                       *)
(***************************************************************************)
EXTENDS Integers, Sequences, FiniteSets, TLC

VARIABLES
    impl,        \* oid_map_t::impl: the hana::map, type -> oid
    registered,  \* history: the type list given to register_types<T...>()
    written,     \* history: per type, the oid of the latest set_type_oid
    ret,         \* the latest OID map call, its arguments and its result
    n,           \* the Nullable object under test
    heap,        \* the objects smart pointers own: strong count and value
    last,        \* the latest Nullable call, the state before it, its result
    sv,          \* the object handed to size_of: its type and its contents
    sz,          \* the latest size_of result
    rd           \* per reader thread: the read in progress and its result

vars == <<impl, registered, written, ret, n, heap, last, sv, sz, rd>>

oidVars == <<impl, registered, written, ret>>
nullableVars == <<n, heap, last>>
sizeVars == <<sv, sz>>
readerVars == <<rd>>

----------------------------------------------------------------------------
(* Bounds of the model *)

\* the number of threads that read one OID map
MaxReaders == 2

\* set_type_oid is given oids 0..MaxOid
MaxOid == 2
\* objects on the heap
MaxObj == 2
\* strong owners of one object besides the Nullable under test
MaxOwners == 2
\* scalars handed to size_of are 0..MaxVal
MaxVal == 1
\* containers handed to size_of hold up to MaxLen elements
MaxLen == 2

----------------------------------------------------------------------------
(* OIDs *)

\* null_oid_t = oid_constant<0>
null_oid == 0

\* PostgreSQL catalog OIDs (catalog/pg_type.h, through ozo/detail/pg_type.h)
BOOLOID == 16
CHAROID == 18
INT8OID == 20
TEXTOID == 25
UUIDOID == 2950
\* array OIDs written as literals in the mapping
BOOLARRAYOID == 1000
CHARARRAYOID == 1002
INT8ARRAYOID == 1016
TEXTARRAYOID == 1009
UUIDARRAYOID == 2951

----------------------------------------------------------------------------
(* Nullable: is_nullable specializations *)

OptionalKinds == {"boost::optional", "std::optional"}
UniqueKinds == {"boost::scoped_ptr", "std::unique_ptr"}
SharedKinds == {"boost::shared_ptr", "std::shared_ptr"}
WeakKinds == {"boost::weak_ptr", "std::weak_ptr"}

NullableKinds == OptionalKinds \cup UniqueKinds \cup SharedKinds \cup WeakKinds

\* Nullable<T> = is_nullable<std::decay_t<T>>::value
Nullable(T) == Len(T) > 1 /\ Head(T) \in NullableKinds

\* unwrap_nullable_type<T>: the type *v has
unwrap_nullable_type(T) == Tail(T)

----------------------------------------------------------------------------
(* Type traits *)

\* bytes<n> and dynamic_size (= void): a size trait is <<n>> or <<>>
bytes(k) == <<k>>
dynamic_size == <<>>

\* type_traits_helper<T, Name, Oid, Size>
type_traits_helper(Name, Oid, Size) ==
    [defined |-> TRUE, name |-> Name, oid |-> Oid, size |-> Size]

\* the primary template type_traits_default<T>: an empty struct
no_type_traits ==
    [defined |-> FALSE, name |-> <<>>, oid |-> null_oid, size |-> dynamic_size]

\* OZO__TYPE_NAME_TYPE / OZO__TYPE_ARRAY_NAME_TYPE: Name and Name + "[]"
TypeName(Name) == <<Name>>
TypeArrayName(Name) == <<Name>> \o <<"[]">>

\* The OZO_PG_DEFINE_TYPE_AND_ARRAY(Type, Name, Oid, ArrayOid, Size) uses:
\* built-in mappings, and the two user-defined types of the documentation.
Definitions ==
    { [type |-> "bool", name |-> "bool", oid |-> BOOLOID,
       arrayOid |-> BOOLARRAYOID, size |-> bytes(1)],
      [type |-> "char", name |-> "char", oid |-> CHAROID,
       arrayOid |-> CHARARRAYOID, size |-> bytes(1)],
      [type |-> "boost::uuids::uuid", name |-> "uuid", oid |-> UUIDOID,
       arrayOid |-> UUIDARRAYOID, size |-> bytes(16)],
      [type |-> "int64_t", name |-> "int8", oid |-> INT8OID,
       arrayOid |-> INT8ARRAYOID, size |-> bytes(8)],
      [type |-> "std::string", name |-> "text", oid |-> TEXTOID,
       arrayOid |-> TEXTARRAYOID, size |-> dynamic_size],
      [type |-> "custom_type", name |-> "code.custom_type", oid |-> null_oid,
       arrayOid |-> null_oid, size |-> dynamic_size],
      [type |-> "smtp::message", name |-> "code.message", oid |-> null_oid,
       arrayOid |-> null_oid, size |-> dynamic_size] }

DefinedTypes == {d.type : d \in Definitions}
DefinitionOf(t) == CHOOSE d \in Definitions : d.type = t

\* OZO_PG_DEFINE_TYPE_ARRAY_NULLABLES: the wrappers whose vectors are mapped
ArrayNullables == OptionalKinds \cup UniqueKinds \cup SharedKinds

\* OZO_PG_DEFINE_TYPE(Type, Name, Oid, Size)
OZO_PG_DEFINE_TYPE(d) ==
    type_traits_helper(TypeName(d.name), d.oid, d.size)

\* (mutant) OZO_PG_DEFINE_TYPE_ARRAY that is given the oid of the element
OZO_PG_DEFINE_TYPE_ARRAY_ElemOid(d) ==
    type_traits_helper(TypeArrayName(d.name), d.oid, dynamic_size)

\* OZO_PG_DEFINE_TYPE_ARRAY(Type, Name, Oid)
OZO_PG_DEFINE_TYPE_ARRAY(d) ==
    type_traits_helper(TypeArrayName(d.name), d.arrayOid, dynamic_size)

\* type_traits<T>: the explicit specialization the macros made, else
\* type_traits_default<T>: the inner type's traits for a Nullable, else empty
RECURSIVE type_traits(_)
type_traits(T) ==
    IF Len(T) = 1 /\ T[1] \in DefinedTypes
        THEN OZO_PG_DEFINE_TYPE(DefinitionOf(T[1]))
    ELSE IF Len(T) = 2 /\ T[1] = "std::vector" /\ T[2] \in DefinedTypes
        THEN OZO_PG_DEFINE_TYPE_ARRAY(DefinitionOf(T[2]))
    ELSE IF Len(T) = 3 /\ T[1] = "std::vector" /\ T[2] \in ArrayNullables
            /\ T[3] \in DefinedTypes
        THEN OZO_PG_DEFINE_TYPE_ARRAY(DefinitionOf(T[3]))
    ELSE IF Nullable(T)
        THEN type_traits(unwrap_nullable_type(T))
    ELSE no_type_traits

\* is_built_in<T>: type_traits<T>::oid exists and is not null_oid_t
is_built_in(T) ==
    LET tt == type_traits(T) IN tt.defined /\ tt.oid # null_oid

BuiltIn(T) == is_built_in(T)

\* is_dynamic_size<T>
is_dynamic_size(T) == type_traits(T).size = dynamic_size

DynamicSize(T) == is_dynamic_size(T)
StaticSize(T) == ~DynamicSize(T)

----------------------------------------------------------------------------
(* The OID map *)

\* the types the modelled program registers and asks about
MapTypes ==
    { <<"int64_t">>, <<"custom_type">>, <<"smtp::message">>,
      <<"std::optional", "custom_type">> }

OidTypes ==
    MapTypes \cup
    { <<"boost::optional", "int64_t">>, <<"std::vector", "int64_t">> }

Oids == 0..MaxOid

\* what accepts_oid is asked: the oids above and the built-in constants
AcceptArgs == Oids \cup {INT8OID, INT8ARRAYOID}

\* detail::register_types<T...>(): hana::make_map of (type_c<T>, null_oid())
\* pairs; no condition is put on T
detail_register_types(Ts) == [T \in Ts |-> null_oid]

\* register_types<T...>(): oid_map_t{detail::register_types<T...>()}
register_types(Ts) == detail_register_types(Ts)

\* hana's map[type_c<T>] compiles only for a key of the map
has_key(map, T) == T \in DOMAIN map

\* (mutant) set_type_oid without its static_assert
set_type_oid_NoAssert(map, T) == has_key(map, T)

\* set_type_oid<T>(map, oid) compiles: the static_assert, then map.impl[...]
set_type_oid_compiles(map, T) == ~is_built_in(T) /\ has_key(map, T)

\* (mutant) set_type_oid that does not keep to T's own entry
set_type_oid_AnyKey(map, T, oid) == [U \in DOMAIN map |-> oid]

\* set_type_oid<T>(map, oid): map.impl[hana::type_c<T>] = oid
set_type_oid(map, T, oid) == [map EXCEPT ![T] = oid]

\* type_oid<T>(map) compiles: the BuiltIn overload for any map, the other
\* one for a key of the map
type_oid_compiles(map, T) == BuiltIn(T) \/ has_key(map, T)

\* (mutant) type_oid without the BuiltIn overload: the map is asked
type_oid_FromMap(map, T) == IF has_key(map, T) THEN map[T] ELSE null_oid

\* type_oid<T>(map): the two overloads, chosen by Require<BuiltIn<T>>
type_oid(map, T) ==
    IF BuiltIn(T) THEN type_traits(T).oid ELSE map[T]

\* (mutant) accepts_oid that compares with the static oid of the traits
accepts_oid_Static(map, T, oid) == type_traits(T).oid = oid

\* accepts_oid<T>(map, oid)
accepts_oid(map, T, oid) == type_oid(map, T) = oid

\* (mutant) empty that looks for an oid that was set, not for an entry
empty_NoOidSet(map) == \A T \in DOMAIN map : map[T] = null_oid

\* empty(map): hana::length(map.impl) == hana::size_c<0>
empty(map) == Cardinality(DOMAIN map) = 0

NoCall == [op |-> "none", type |-> <<>>, oid |-> null_oid, val |-> null_oid]

InitOidMap ==
    /\ registered \in SUBSET MapTypes
    /\ impl = register_types(registered)
    /\ written = [T \in registered |-> <<>>]
    /\ ret = NoCall

SetTypeOid(T, oid) ==
    /\ set_type_oid_compiles(impl, T)
    /\ impl' = set_type_oid(impl, T, oid)
    /\ written' = [written EXCEPT ![T] = <<oid>>]
    /\ ret' = [op |-> "set_type_oid", type |-> T, oid |-> oid, val |-> null_oid]
    /\ UNCHANGED registered
    /\ UNCHANGED <<nullableVars, sizeVars, readerVars>>

TypeOid(T) ==
    /\ type_oid_compiles(impl, T)
    /\ ret' = [op |-> "type_oid", type |-> T, oid |-> null_oid,
               val |-> type_oid(impl, T)]
    /\ UNCHANGED <<impl, registered, written>>
    /\ UNCHANGED <<nullableVars, sizeVars, readerVars>>

AcceptsOid(T, oid) ==
    /\ type_oid_compiles(impl, T)
    /\ ret' = [op |-> "accepts_oid", type |-> T, oid |-> oid,
               val |-> accepts_oid(impl, T, oid)]
    /\ UNCHANGED <<impl, registered, written>>
    /\ UNCHANGED <<nullableVars, sizeVars, readerVars>>

Empty ==
    /\ ret' = [op |-> "empty", type |-> <<>>, oid |-> null_oid,
               val |-> empty(impl)]
    /\ UNCHANGED <<impl, registered, written>>
    /\ UNCHANGED <<nullableVars, sizeVars, readerVars>>

NextOidMap ==
    \/ \E T \in OidTypes, oid \in Oids : SetTypeOid(T, oid)
    \/ \E T \in OidTypes : TypeOid(T)
    \/ \E T \in OidTypes, oid \in AcceptArgs : AcceptsOid(T, oid)
    \/ Empty

----------------------------------------------------------------------------
(* Nullable objects: optionals and smart pointers                          *)
(*                                                                         *)
(* The inner type is bool.                                                 *)
(* A Nullable is [kind, has, val, obj]: an optional holds its value in     *)
(* place (has, val); a pointer refers to a heap object (obj, 0 for none).  *)
(* heap[o] is [strong, val]: the number of strong owners of o (0: the      *)
(* object is destroyed) and the object's value.  s is the pair             *)
(* [n |-> Nullable, heap |-> heap].                                        *)

ObjIds == 1..MaxObj

\* the inner type is bool
InnerValues == BOOLEAN

\* T{} of the inner type
value_initialized == FALSE

\* no object
nullptr == 0

\* T{} of the Nullable itself: an empty optional, a null pointer
empty_nullable(kind) ==
    [kind |-> kind, has |-> FALSE, val |-> value_initialized, obj |-> nullptr]

destroyed == [strong |-> 0, val |-> value_initialized]

\* one more strong owner of o (a shared_ptr copy)
acquire(h, o) ==
    IF o = nullptr THEN h
    ELSE [h EXCEPT ![o] = [strong |-> h[o].strong + 1, val |-> h[o].val]]

\* a strong owner of o goes away; the last one destroys the object
release(h, o) ==
    IF o = nullptr THEN h
    ELSE IF h[o].strong <= 1 THEN [h EXCEPT ![o] = destroyed]
    ELSE [h EXCEPT ![o] = [strong |-> h[o].strong - 1, val |-> h[o].val]]

\* owners of o other than the Nullable under test
owners(s, o) ==
    IF s.n.kind \in UniqueKinds \cup SharedKinds /\ s.n.obj = o
        THEN s.heap[o].strong - 1
        ELSE s.heap[o].strong

\* storage operator new may hand out: no live object there, and no weak
\* reference still holding the control block
FreeObjs(s) ==
    {o \in ObjIds : s.heap[o].strong = 0
                    /\ ~(s.n.kind \in WeakKinds /\ s.n.obj = o)}

new_object(s) == CHOOSE o \in FreeObjs(s) : \A p \in FreeObjs(s) : o <= p

\* weak_ptr::lock(): a shared_ptr to the referent, empty when the weak_ptr is
\* empty or the referent is destroyed
weak_lock(h, w) ==
    IF w.obj # nullptr /\ h[w.obj].strong > 0
        THEN [obj |-> w.obj, heap |-> acquire(h, w.obj)]
        ELSE [obj |-> nullptr, heap |-> h]

\* (mutant) is_null of a weak_ptr that does not lock: an expired weak_ptr
\* still refers to its control block
is_null_weak_NoLock(h, w) == [val |-> (w.obj = nullptr), heap |-> h]

\* is_null(v) of a weak_ptr: is_null(v.lock()), the temporary shared_ptr
\* destroyed at the end of the full expression
is_null_weak(h, w) ==
    LET l == weak_lock(h, w)
    IN  [val |-> (l.obj = nullptr), heap |-> release(l.heap, l.obj)]

\* is_null_impl<std::weak_ptr<T>>::apply(v) of ozo/ext/std/weak_ptr.h:
\* is_null(v.lock())
is_null_impl_weak_ptr(h, w) ==
    LET l == weak_lock(h, w)
        locked == [n |-> [empty_nullable("std::shared_ptr") EXCEPT
                             !.obj = l.obj],
                   heap |-> l.heap]
    IN  [val |-> (locked.n.obj = nullptr), heap |-> release(l.heap, l.obj)]

\* is_null(v): !v, or the weak_ptr overloads; val is the result and heap the
\* heap the call leaves
is_null_call(s) ==
    IF s.n.kind \in WeakKinds THEN is_null_weak(s.heap, s.n)
    ELSE IF s.n.kind \in OptionalKinds
        THEN [val |-> ~s.n.has, heap |-> s.heap]
    ELSE [val |-> (s.n.obj = nullptr), heap |-> s.heap]

is_null(s) == is_null_call(s).val

\* unwrap_nullable(v): *v, or *v.lock() for a weak_ptr (v not null)
unwrap_nullable(s) ==
    IF s.n.kind \in OptionalKinds THEN s.n.val
    ELSE IF s.n.kind \in WeakKinds
        THEN LET l == weak_lock(s.heap, s.n) IN l.heap[l.obj].val
    ELSE s.heap[s.n.obj].val

\* allocate_nullable_impl<T>::apply exists: emplace() for the optionals, the
\* specializations for unique_ptr, scoped_ptr and the shared_ptrs; a
\* weak_ptr is not Emplaceable and fails the static_assert
allocate_nullable_compiles(kind) == kind \notin WeakKinds

\* allocate_nullable(out, a): out.emplace(), or a new T{} out takes over
allocate_nullable(s) ==
    IF s.n.kind \in OptionalKinds
        THEN [n |-> [s.n EXCEPT !.has = TRUE, !.val = value_initialized],
              heap |-> s.heap]
    ELSE LET o == new_object(s)
             made == [s.heap EXCEPT
                        ![o] = [strong |-> 1, val |-> value_initialized]]
         IN  [n |-> [s.n EXCEPT !.obj = o],
              heap |-> release(made, s.n.obj)]

\* (mutant) init_nullable without the is_null test
init_nullable_Always(s) == allocate_nullable(s)

\* init_nullable(n, a): if (is_null(n)) allocate_nullable(n, a)
init_nullable(s) ==
    IF is_null(s) THEN allocate_nullable(s) ELSE s

\* n = T{} needs an assignment operator: boost::scoped_ptr declares its own
\* private
reset_nullable_compiles(kind) == kind # "boost::scoped_ptr"

\* (mutant) reset_nullable that resets the inner value, not the Nullable
reset_nullable_Inner(s) ==
    [n |-> [s.n EXCEPT !.val = value_initialized], heap |-> s.heap]

\* reset_nullable(n): n = T{}
reset_nullable(s) ==
    [n |-> empty_nullable(s.n.kind),
     heap |-> IF s.n.kind \in UniqueKinds \cup SharedKinds
                 THEN release(s.heap, s.n.obj) ELSE s.heap]

\* the state the Nullable calls act on
NullableState == [n |-> n, heap |-> heap]

NoState ==
    [n |-> empty_nullable("none"), heap |-> [o \in ObjIds |-> destroyed]]

NoNullableCall ==
    [op |-> "none", afterInit |-> FALSE, pre |-> NoState,
     null |-> FALSE, val |-> value_initialized]

\* the record of a call of is_null, init_nullable or reset_nullable: what
\* ran, whether it followed an init_nullable, the state it found, its result
Called(op, null) ==
    [op |-> op, afterInit |-> (last.op = "init_nullable"),
     pre |-> NullableState,
     null |-> null, val |-> value_initialized]

\* the record of another call: what ran and its value
Ran(op, val) ==
    [op |-> op, afterInit |-> FALSE, pre |-> NoState,
     null |-> FALSE, val |-> val]

InitNullableObject ==
    /\ \E kind \in NullableKinds : n = empty_nullable(kind)
    /\ heap = [o \in ObjIds |-> destroyed]
    /\ last = NoNullableCall

IsNull ==
    /\ LET r == is_null_call(NullableState)
       IN  /\ heap' = r.heap
           /\ last' = Called("is_null", r.val)
           /\ UNCHANGED n
    /\ UNCHANGED <<oidVars, sizeVars, readerVars>>

UnwrapNullable ==
    /\ ~is_null(NullableState)
    /\ last' = Ran("unwrap_nullable", unwrap_nullable(NullableState))
    /\ UNCHANGED <<n, heap>>
    /\ UNCHANGED <<oidVars, sizeVars, readerVars>>

\* unwrap_nullable(n) = v: the caller writes the inner value
Assign(v) ==
    /\ ~is_null(NullableState)
    /\ IF n.kind \in OptionalKinds
          THEN n' = [n EXCEPT !.val = v] /\ UNCHANGED heap
          ELSE heap' = [heap EXCEPT ![n.obj] = [strong |-> heap[n.obj].strong,
                                                val |-> v]]
               /\ UNCHANGED n
    /\ last' = Ran("assign", v)
    /\ UNCHANGED <<oidVars, sizeVars, readerVars>>

AllocateNullable ==
    /\ allocate_nullable_compiles(n.kind)
    /\ n.kind \in OptionalKinds \/ FreeObjs(NullableState) # {}
    /\ LET t == allocate_nullable(NullableState)
       IN  n' = t.n /\ heap' = t.heap
    /\ last' = Ran("allocate_nullable", value_initialized)
    /\ UNCHANGED <<oidVars, sizeVars, readerVars>>

InitNullable ==
    /\ allocate_nullable_compiles(n.kind)
    /\ n.kind \in OptionalKinds \/ FreeObjs(NullableState) # {}
    /\ LET t == init_nullable(NullableState)
       IN  n' = t.n /\ heap' = t.heap
    /\ last' = Called("init_nullable", FALSE)
    /\ UNCHANGED <<oidVars, sizeVars, readerVars>>

ResetNullable ==
    /\ reset_nullable_compiles(n.kind)
    /\ LET t == reset_nullable(NullableState)
       IN  n' = t.n /\ heap' = t.heap
    /\ last' = Called("reset_nullable", FALSE)
    /\ UNCHANGED <<oidVars, sizeVars, readerVars>>

\* std::make_shared<T>(v): an object with one strong owner elsewhere
MakeShared(v) ==
    /\ n.kind \in SharedKinds \cup WeakKinds
    /\ FreeObjs(NullableState) # {}
    /\ heap' = [heap EXCEPT ![new_object(NullableState)] =
                                [strong |-> 1, val |-> v]]
    /\ last' = Ran("make_shared", v)
    /\ UNCHANGED n
    /\ UNCHANGED <<oidVars, sizeVars, readerVars>>

\* n = owner: a weak_ptr starts to observe o, a shared_ptr starts to share it
CopyFrom(o) ==
    /\ n.kind \in SharedKinds \cup WeakKinds
    /\ owners(NullableState, o) > 0
    /\ n.obj # o
    /\ n' = [n EXCEPT !.obj = o]
    /\ heap' = IF n.kind \in SharedKinds
                  THEN release(acquire(heap, o), n.obj) ELSE heap
    /\ last' = Ran("copy_from", value_initialized)
    /\ UNCHANGED <<oidVars, sizeVars, readerVars>>

\* a strong owner elsewhere is copied
ShareOwner(o) ==
    /\ owners(NullableState, o) > 0
    /\ owners(NullableState, o) < MaxOwners
    /\ heap' = acquire(heap, o)
    /\ last' = Ran("share_owner", value_initialized)
    /\ UNCHANGED n
    /\ UNCHANGED <<oidVars, sizeVars, readerVars>>

\* a strong owner elsewhere is destroyed
DropOwner(o) ==
    /\ owners(NullableState, o) > 0
    /\ heap' = release(heap, o)
    /\ last' = Ran("drop_owner", value_initialized)
    /\ UNCHANGED n
    /\ UNCHANGED <<oidVars, sizeVars, readerVars>>

NextNullable ==
    \/ IsNull
    \/ UnwrapNullable
    \/ \E v \in InnerValues : Assign(v)
    \/ AllocateNullable
    \/ InitNullable
    \/ ResetNullable
    \/ \E v \in InnerValues : MakeShared(v)
    \/ \E o \in ObjIds : CopyFrom(o)
    \/ \E o \in ObjIds : ShareOwner(o)
    \/ \E o \in ObjIds : DropOwner(o)

----------------------------------------------------------------------------
(* size_of                                                                 *)
(*                                                                         *)
(* An object is its type and its contents: a number for a scalar, the      *)
(* sequence of its elements for a std::string or a std::vector, and <<>>   *)
(* (null) or <<v>> for a Nullable.                                         *)

SizeTypes ==
    { <<"bool">>, <<"char">>, <<"int64_t">>, <<"boost::uuids::uuid">>,
      <<"boost::optional", "int64_t">>, <<"std::unique_ptr", "bool">>,
      <<"std::shared_ptr", "boost::uuids::uuid">>,
      <<"std::string">>, <<"std::vector", "int64_t">>,
      <<"std::vector", "boost::optional", "int64_t">>,
      <<"std::vector", "std::string">> }

\* the types std::size() and std::begin() apply to
Container(T) == T = <<"std::string">> \/ (Len(T) > 1 /\ Head(T) = "std::vector")

\* decltype(*std::begin(v))
ElementType(T) == IF T = <<"std::string">> THEN <<"char">> ELSE Tail(T)

UpTo(S) == UNION {[1..k -> S] : k \in 0..MaxLen}

\* the objects of type T whose scalars are in S; the strings held in a
\* vector differ in length only, their characters all being 0
RECURSIVE ObjectsIn(_, _)
ObjectsIn(T, S) ==
    IF Container(T)
        THEN UpTo(ObjectsIn(ElementType(T),
                            IF Container(ElementType(T)) THEN {0} ELSE S))
    ELSE IF Nullable(T)
        THEN {<<>>} \cup {<<v>> : v \in ObjectsIn(unwrap_nullable_type(T), S)}
    ELSE S

ObjectsOf(T) == ObjectsIn(T, 0..MaxVal)

\* size_of(v) has a viable overload: type_traits<T>::size exists, and for a
\* dynamic size std::size(v) and size_of(*std::begin(v)) are well-formed
RECURSIVE size_of_compiles(_)
size_of_compiles(T) ==
    /\ type_traits(T).defined
    /\ \/ StaticSize(T)
       \/ Container(T) /\ size_of_compiles(ElementType(T))

\* (mutant) size_of that takes a null Nullable to have no bytes
RECURSIVE size_of_NullIsEmpty(_, _)
size_of_NullIsEmpty(T, v) ==
    IF ~is_dynamic_size(T)
        THEN IF Nullable(T) /\ v = <<>> THEN 0 ELSE type_traits(T).size[1]
    ELSE IF Len(v) # 0 THEN Len(v) * size_of_NullIsEmpty(ElementType(T), v[1])
    ELSE 0

\* (mutant) size_of that adds up the sizes of all the elements
RECURSIVE size_of_Sum(_, _)
size_of_Sum(T, v) ==
    IF ~is_dynamic_size(T) THEN type_traits(T).size[1]
    ELSE IF Len(v) # 0
        THEN size_of_Sum(ElementType(T), v[1]) + size_of_Sum(T, Tail(v))
    ELSE 0

\* size_of(v): the constant type_traits<T>::size of a static size type, else
\* std::size(v) ? std::size(v) * size_of(*std::begin(v)) : 0
RECURSIVE size_of(_, _)
size_of(T, v) ==
    IF ~is_dynamic_size(T) THEN type_traits(T).size[1]
    ELSE IF Len(v) # 0 THEN Len(v) * size_of(ElementType(T), v[1])
    ELSE 0

NoSize == [done |-> FALSE, of |-> <<>>, val |-> 0]

InitSizeOf ==
    /\ \E T \in SizeTypes :
          /\ size_of_compiles(T)
          /\ \E v \in ObjectsOf(T) : sv = [type |-> T, value |-> v]
    /\ sz = NoSize

\* the object is given other contents
Store(v) ==
    /\ v # sv.value
    /\ sv' = [sv EXCEPT !.value = v]
    /\ UNCHANGED sz
    /\ UNCHANGED <<oidVars, nullableVars, readerVars>>

SizeOf ==
    /\ sz' = [done |-> TRUE, of |-> <<sv.value>>,
              val |-> size_of(sv.type, sv.value)]
    /\ UNCHANGED sv
    /\ UNCHANGED <<oidVars, nullableVars, readerVars>>

NextSizeOf ==
    \/ \E v \in ObjectsOf(sv.type) : Store(v)
    \/ SizeOf

----------------------------------------------------------------------------
(* Specifications: one per part of the type system; the other parts' state *)
(* stays as constructed.                                                   *)

IdleOidMap ==
    /\ registered = {}
    /\ impl = register_types({})
    /\ written = [T \in {} |-> <<>>]
    /\ ret = NoCall

IdleNullable ==
    /\ n = empty_nullable("boost::optional")
    /\ heap = [o \in ObjIds |-> destroyed]
    /\ last = NoNullableCall

IdleSizeOf ==
    /\ sv = [type |-> <<"bool">>, value |-> 0]
    /\ sz = NoSize

----------------------------------------------------------------------------
(* Threads that read one OID map                                           *)
(*                                                                         *)
(* The map is populated by set_type_oid before any reader has made a call. *)
(* A read takes two steps of its thread: the call reads the map (type_oid  *)
(* loads map.impl[type_c<T>], empty takes the length of the map), the      *)
(* return makes the result of it (accepts_oid compares with its oid).      *)
(* Steps of different readers interleave freely.                           *)

Readers == 1..MaxReaders

\* the types register_types is given here
ReaderMapTypes == {<<"custom_type">>, <<"smtp::message">>}

\* the types the readers ask type_oid about
ReaderTypes == ReaderMapTypes \cup {<<"int64_t">>}

\* a reader that made no call yet
NoRead ==
    [pc |-> "idle", op |-> "none", type |-> <<>>, oid |-> null_oid,
     tmp |-> null_oid, val |-> null_oid]

IdleReaders == rd = [r \in Readers |-> NoRead]

InitReaders ==
    /\ registered \in SUBSET ReaderMapTypes
    /\ impl = register_types(registered)
    /\ written = [T \in registered |-> <<>>]
    /\ ret = NoCall
    /\ IdleReaders

\* population is over once a reader has made a call
NoReaderAttached == \A r \in Readers : rd[r] = NoRead

\* set_type_oid<T>(map, oid) by the thread that populates the map
Populate(T, oid) ==
    /\ NoReaderAttached
    /\ SetTypeOid(T, oid)

\* (mutant) a read that writes: accepts_oid leaves its oid in the entry
read_effect_Store(map, op, T, oid) ==
    IF op = "accepts_oid" /\ has_key(map, T) THEN [map EXCEPT ![T] = oid]
    ELSE map

\* the map after a read: type_oid, accepts_oid and empty take the map as
\* const oid_map_t<MapImplT>& and assign nothing
read_effect(map, op, T, oid) == map

\* what the call of op reads from the map
read_value(map, op, T) ==
    IF op = "empty" THEN empty(map) ELSE type_oid(map, T)

\* what op returns from the value it read
read_result(op, tmp, oid) ==
    IF op = "accepts_oid" THEN tmp = oid ELSE tmp

\* reader r not in a call
CanCall(r) == rd[r].pc \in {"idle", "done"}

\* the call of reader r has read the map
ReadStep(r, op, T, oid) ==
    /\ CanCall(r)
    /\ rd' = [rd EXCEPT ![r] =
                [pc |-> "read", op |-> op, type |-> T, oid |-> oid,
                 tmp |-> read_value(impl, op, T), val |-> null_oid]]
    /\ impl' = read_effect(impl, op, T, oid)
    /\ UNCHANGED <<registered, written, ret>>
    /\ UNCHANGED <<nullableVars, sizeVars>>

\* reader r calls type_oid<T>(map)
ReadTypeOid(r, T) ==
    /\ type_oid_compiles(impl, T)
    /\ ReadStep(r, "type_oid", T, null_oid)

\* reader r calls accepts_oid<T>(map, oid)
ReadAcceptsOid(r, T, oid) ==
    /\ type_oid_compiles(impl, T)
    /\ ReadStep(r, "accepts_oid", T, oid)

\* reader r calls empty(map)
ReadEmpty(r) ==
    /\ CanCall(r)
    /\ ReadStep(r, "empty", <<>>, null_oid)

\* the call of reader r returns
Return(r) ==
    /\ rd[r].pc = "read"
    /\ rd' = [rd EXCEPT ![r].pc = "done",
                        ![r].val = read_result(rd[r].op, rd[r].tmp, rd[r].oid)]
    /\ UNCHANGED <<oidVars, nullableVars, sizeVars>>

\* the oids accepts_oid is asked about by the readers
ReaderOids == {null_oid, 1}

NextReaders ==
    \/ \E T \in ReaderMapTypes, oid \in Oids : Populate(T, oid)
    \/ \E r \in Readers, T \in ReaderTypes : ReadTypeOid(r, T)
    \/ \E r \in Readers, oid \in ReaderOids :
          ReadAcceptsOid(r, <<"custom_type">>, oid)
    \/ \E r \in Readers : ReadEmpty(r)
    \/ \E r \in Readers : Return(r)

----------------------------------------------------------------------------
(* Lookups of type traits, next to the OID map of a user-defined type *)

\* the types with a definition that the lookups start from
TraitBases == {<<"int64_t">>, <<"custom_type">>}

\* the types asked about: a base type, its Nullables, its vector, the
\* vectors of its Nullables and a Nullable of its vector
TraitTypes ==
    UNION { {T, <<"std::vector">> \o T, <<"std::optional", "std::vector">> \o T}
            \cup {<<W>> \o T : W \in NullableKinds}
            \cup {<<"std::vector", W>> \o T : W \in NullableKinds}
          : T \in TraitBases }

\* the types register_types is given here
TraitMapTypes ==
    { <<"custom_type">>, <<"std::optional", "custom_type">>,
      <<"std::vector", "custom_type">> }

InitTraits ==
    /\ registered \in SUBSET TraitMapTypes
    /\ impl = register_types(registered)
    /\ written = [T \in registered |-> <<>>]
    /\ ret = NoCall

\* type_traits<T>, is_built_in<T> and, for a type that has traits,
\* is_dynamic_size<T> (<<>>: type_traits<T>::size does not exist)
TypeTraits(T) ==
    /\ ret' = [op |-> "type_traits", type |-> T, oid |-> null_oid,
               val |-> [traits |-> type_traits(T),
                        built_in |-> is_built_in(T),
                        dynamic |-> IF type_traits(T).defined
                                        THEN <<is_dynamic_size(T)>>
                                    ELSE <<>>]]
    /\ UNCHANGED <<impl, registered, written>>
    /\ UNCHANGED <<nullableVars, sizeVars, readerVars>>

NextTraits ==
    \/ \E T \in TraitTypes, oid \in Oids : SetTypeOid(T, oid)
    \/ \E T \in TraitTypes : TypeOid(T)
    \/ \E T \in TraitTypes : TypeTraits(T)

Init == InitOidMap /\ IdleNullable /\ IdleSizeOf /\ IdleReaders
Next == NextOidMap
Spec == Init /\ [][Next]_vars

InitN == IdleOidMap /\ InitNullableObject /\ IdleSizeOf /\ IdleReaders
NextN == NextNullable
SpecNullable == InitN /\ [][NextN]_vars

InitS == IdleOidMap /\ IdleNullable /\ InitSizeOf /\ IdleReaders
NextS == NextSizeOf
SpecSize == InitS /\ [][NextS]_vars

InitT == InitTraits /\ IdleNullable /\ IdleSizeOf /\ IdleReaders
NextT == NextTraits
SpecTraits == InitT /\ [][NextT]_vars

InitR == InitReaders /\ IdleNullable /\ IdleSizeOf
NextR == NextReaders
SpecReaders == InitR /\ [][NextR]_vars

----------------------------------------------------------------------------
(* Properties of the OID map, checked under Spec *)

\* the oid of the latest set_type_oid<T> on the map, null_oid before any
LatestSet(T) == IF written[T] = <<>> THEN null_oid ELSE written[T][1]

\* C1: for a custom type T registered in the map, type_oid<T>(map) is
\* callable and returns the oid of the latest set_type_oid<T>(map, oid), or
\* null_oid when there was none, whatever was set for the other types.
C1_TypeOidIsLatestSet ==
    /\ \A T \in registered :
          ~BuiltIn(T) =>
              /\ type_oid_compiles(impl, T)
              /\ type_oid(impl, T) = LatestSet(T)
    /\ (ret.op = "type_oid" /\ ~BuiltIn(ret.type)) =>
          ret.val = LatestSet(ret.type)

\* type_oid<T> returned the oid set for T while another registered custom
\* type holds a different oid, and a third one was never set
C1_Witness ==
    /\ ret.op = "type_oid"
    /\ ~BuiltIn(ret.type)
    /\ written[ret.type] # <<>>
    /\ ret.val = written[ret.type][1]
    /\ ret.val # null_oid
    /\ \E U \in registered :
          /\ U # ret.type
          /\ written[U] # <<>>
          /\ written[U][1] # ret.val
    /\ \E U \in registered : ~BuiltIn(U) /\ written[U] = <<>>

\* C2: for a built-in type T, also a Nullable of a built-in type,
\* type_oid<T>(map) is the oid constant of type_traits<T>, whatever the map
\* holds.
C2_BuiltInOidIsConstant ==
    /\ \A T \in OidTypes :
          BuiltIn(T) =>
              /\ type_oid_compiles(impl, T)
              /\ type_oid(impl, T) = type_traits(T).oid
    /\ (ret.op = "type_oid" /\ BuiltIn(ret.type)) =>
          /\ ret.val = type_traits(ret.type).oid
          /\ ret.val # null_oid
          /\ ret.type \in {<<"int64_t">>, <<"boost::optional", "int64_t">>}
                => ret.val = INT8OID
          /\ ret.type = <<"std::vector", "int64_t">> => ret.val = INT8ARRAYOID

\* type_oid of a Nullable of a built-in type returned the constant, on a map
\* that holds other oids: an entry for int64_t itself and a custom oid
C2_Witness ==
    /\ ret.op = "type_oid"
    /\ ret.type = <<"boost::optional", "int64_t">>
    /\ ret.val = INT8OID
    /\ <<"int64_t">> \in DOMAIN impl
    /\ impl[<<"int64_t">>] # ret.val
    /\ \E T \in DOMAIN impl : impl[T] # null_oid

\* C3: the keys of an OID map are the types listed at register_types, and
\* none of them is a built-in type.
C3_NoBuiltInKey ==
    /\ DOMAIN impl = registered
    /\ \A T \in DOMAIN impl : ~BuiltIn(T)

\* C4: set_type_oid<T>(map, oid) is rejected for a built-in T, so the entry
\* of a built-in type is never stored to; for a custom T it stores oid under
\* T.
C4_SetTypeOidCustomOnly ==
    /\ \A T \in DOMAIN impl :
          BuiltIn(T) => (impl[T] = null_oid /\ written[T] = <<>>)
    /\ \A T \in OidTypes : BuiltIn(T) => ~set_type_oid_compiles(impl, T)
    /\ ret.op = "set_type_oid" =>
          /\ ~BuiltIn(ret.type)
          /\ impl[ret.type] = ret.oid

\* set_type_oid stored an oid for a custom type in a map that also has a
\* built-in type's entry
C4_Witness ==
    /\ ret.op = "set_type_oid"
    /\ ret.oid # null_oid
    /\ impl[ret.type] = ret.oid
    /\ \E T \in DOMAIN impl : BuiltIn(T)

\* C5: accepts_oid<T>(map, oid) is true exactly when oid is the oid type_oid
\* gives for T: the constant of a built-in type, the latest oid set for a
\* custom type, null_oid for a custom type never set.
C5_AcceptsOidIffTypeOid ==
    ret.op = "accepts_oid" =>
        ret.val = ((IF BuiltIn(ret.type) THEN type_traits(ret.type).oid
                                         ELSE LatestSet(ret.type)) = ret.oid)

\* accepts_oid accepted the oid that was set for a custom type
C5_Witness ==
    /\ ret.op = "accepts_oid"
    /\ ~BuiltIn(ret.type)
    /\ written[ret.type] = <<ret.oid>>
    /\ ret.oid # null_oid
    /\ ret.val = TRUE

\* C6: empty(map) is true iff register_types was given no type, and no
\* set_type_oid changes that: the entries stay those of the registration.
C6_EmptyIffNoneRegistered ==
    /\ DOMAIN impl = registered
    /\ empty(impl) = (registered = {})
    /\ ret.op = "empty" => ret.val = (registered = {})

\* empty answered false on a map whose types were registered and one of
\* them set, another not
C6_Witness ==
    /\ ret.op = "empty"
    /\ ret.val = FALSE
    /\ \E T \in registered : written[T] # <<>>
    /\ \E T \in registered : written[T] = <<>>

----------------------------------------------------------------------------
(* Properties of the Nullable protocol, checked under SpecNullable *)

\* the kinds init_nullable and reset_nullable are both defined for
RoundTripKinds ==
    {k \in NullableKinds :
        allocate_nullable_compiles(k) /\ reset_nullable_compiles(k)}

C8_InitIdempotent ==
    /\ (last.op = "init_nullable" /\ ~is_null(last.pre)) =>
          NullableState = last.pre
    /\ ENABLED InitNullable =>
          init_nullable(init_nullable(NullableState))
              = init_nullable(NullableState)

\* init_nullable ran on a Nullable holding a value that is not the
\* value-initialized one, and the value is still there
C8_Witness ==
    /\ last.op = "init_nullable"
    /\ ~is_null(last.pre)
    /\ unwrap_nullable(last.pre) # value_initialized
    /\ unwrap_nullable(NullableState) = unwrap_nullable(last.pre)

\* C9: is_null of a weak reference can always be called; it returns true
\* when the weak reference is empty or its referent has no strong owner
\* left, false while the referent has one, and the strong reference it
\* locks is gone after the call: the owners are those from before.  The
\* is_null_impl specialization for std::weak_ptr answers the same.
C9_WeakIsNull ==
    /\ n.kind \in WeakKinds => ENABLED IsNull
    /\ n.kind \in WeakKinds =>
          is_null_impl_weak_ptr(heap, n) = is_null_weak(heap, n)
    /\ (last.op = "is_null" /\ n.kind \in WeakKinds) =>
          /\ last.null = (IF n.obj = nullptr THEN TRUE
                          ELSE last.pre.heap[n.obj].strong = 0)
          /\ heap = last.pre.heap

\* is_null answered true for a weak reference whose referent was destroyed
C9_Witness ==
    /\ last.op = "is_null"
    /\ n.kind \in WeakKinds
    /\ n.obj # nullptr
    /\ heap[n.obj].strong = 0
    /\ last.null = TRUE

----------------------------------------------------------------------------
(* Properties of size_of, checked under SpecSize *)

\* the Size given where the innermost type of T was defined
DeclaredSize(T) == DefinitionOf(T[Len(T)]).size

\* C10: size_of(v) of a type with the fixed size bytes<k> is k for every
\* object v of the type, a Nullable of a fixed size type included, null or
\* not.
C10_StaticSizeIsDeclared ==
    StaticSize(sv.type) =>
        /\ \A v \in ObjectsOf(sv.type) :
              size_of(sv.type, v) = DeclaredSize(sv.type)[1]
        /\ sz.done => sz.val = DeclaredSize(sv.type)[1]

\* size_of gave the 8 bytes of int64_t for a null Nullable of it, whose
\* contents have changed since
C10_Witness ==
    /\ sz.done
    /\ sv.type = <<"boost::optional", "int64_t">>
    /\ sz.of = <<(<<>>)>>
    /\ sv.value # <<>>
    /\ sz.val = 8

\* the size of the first element of v, a container of type T: the declared
\* bytes of a fixed size element, the length of a string
FirstElementSize(T, v) ==
    IF StaticSize(ElementType(T)) THEN DeclaredSize(ElementType(T))[1]
    ELSE Len(v[1])

\* the sizes of all the elements of v added up
RECURSIVE SumOfElementSizes(_, _)
SumOfElementSizes(T, v) ==
    IF Len(v) = 0 THEN 0
    ELSE FirstElementSize(T, v) + SumOfElementSizes(T, Tail(v))

\* C11: size_of(v) of a dynamic size container is 0 when v has no elements
\* and else the number of elements times the size of the first one: the
\* number of characters of a string, k * e for k elements of the fixed size
\* e, and for strings of differing lengths the number of strings times the
\* length of the first, not the sum of the lengths.
C11_DynamicSizeIsCountTimesFirst ==
    (sz.done /\ DynamicSize(sv.type)) =>
        LET v == sz.of[1]
        IN  /\ Len(v) = 0 => sz.val = 0
            /\ Len(v) # 0 => sz.val = Len(v) * FirstElementSize(sv.type, v)
            /\ sv.type = <<"std::string">> => sz.val = Len(v)

\* size_of of two strings of differing lengths gave twice the length of the
\* first, which is not the sum of the two lengths
C11_Witness ==
    /\ sz.done
    /\ sv.type = <<"std::vector", "std::string">>
    /\ Len(sz.of[1]) = 2
    /\ Len(sz.of[1][1]) # Len(sz.of[1][2])
    /\ sz.val = 2 * Len(sz.of[1][1])
    /\ sz.val # SumOfElementSizes(sv.type, sz.of[1])

----------------------------------------------------------------------------
(* Properties of the type traits, checked under SpecTraits *)

\* what TypeTraits records for a type
TraitsAnswer(T) ==
    [traits |-> type_traits(T), built_in |-> is_built_in(T),
     dynamic |-> IF type_traits(T).defined THEN <<is_dynamic_size(T)>>
                 ELSE <<>>]

\* type_traits<W>, is_built_in<W> and the size class of a Nullable W are
\* those of its inner type
TraitsAreTransparent ==
    (ret.op = "type_traits" /\ Nullable(ret.type)) =>
        ret.val = TraitsAnswer(unwrap_nullable_type(ret.type))

\* type_oid<W>(map) of a Nullable W returned what type_oid of its inner
\* type returns on the same map, where that one can be called too
TypeOidIsTransparent ==
    (ret.op = "type_oid" /\ Nullable(ret.type)
        /\ type_oid_compiles(impl, unwrap_nullable_type(ret.type))) =>
        ret.val = type_oid(impl, unwrap_nullable_type(ret.type))

\* C12: for a Nullable W of T (no Nullable has type_traits of its own),
\* type_traits<W> has the name, oid and size of type_traits<T>, so
\* is_built_in, the size class and type_oid give for W the answers they
\* give for T.
C12_NullableIsTransparent ==
    TraitsAreTransparent /\ TypeOidIsTransparent

\* the forms of Type that one OZO_PG_DEFINE_TYPE_AND_ARRAY gives traits
SupportedWrappers ==
    { "boost::optional", "std::optional", "boost::scoped_ptr",
      "std::unique_ptr", "boost::shared_ptr", "std::shared_ptr" }

SequenceForms(Type) ==
    {<<"std::vector", Type>>}
        \cup {<<"std::vector", W, Type>> : W \in SupportedWrappers}

\* the arguments of the two definitions looked at: (Type, Name, Oid,
\* ArrayOid, Size)
Int8Definition == <<"int64_t", "int8", 20, 1016, <<8>> >>
CustomDefinition == <<"custom_type", "code.custom_type", 0, 0, <<>> >>

\* what C13 says of one definition
DefinitionYields(d) ==
    /\ (ret.op = "type_traits" /\ ret.type = <<d[1]>>) =>
          /\ ret.val.traits =
                [defined |-> TRUE, name |-> <<d[2]>>, oid |-> d[3],
                 size |-> d[5]]
          /\ (d[3] = 0 /\ d[4] = 0) => ~ret.val.built_in
    /\ (ret.op = "type_traits" /\ ret.type \in SequenceForms(d[1])) =>
          /\ ret.val.traits =
                [defined |-> TRUE, name |-> <<d[2], "[]">>, oid |-> d[4],
                 size |-> <<>>]
          /\ ret.val.dynamic = <<TRUE>>
          /\ (d[3] = 0 /\ d[4] = 0) => ~ret.val.built_in
    /\ (ret.op = "type_oid" /\ d[3] = 0 /\ d[4] = 0
            /\ ret.type \in {<<d[1]>>} \cup SequenceForms(d[1])) =>
          /\ ret.type \in registered
          /\ ret.val = LatestSet(ret.type)

\* C13: OZO_PG_DEFINE_TYPE_AND_ARRAY(Type, Name, Oid, ArrayOid, Size) gives
\* Type the traits (Name, Oid, Size), and gives std::vector<Type> and the
\* std::vector of every supported Nullable of Type the traits (Name "[]",
\* ArrayOid, dynamic_size); with Oid and ArrayOid null_oid, is_built_in is
\* false for Type and these vectors, and type_oid of them answers from the
\* OID map: the oid last set for that very type.
C13_DefineTypeAndArray ==
    DefinitionYields(Int8Definition) /\ DefinitionYields(CustomDefinition)

\* the traits of the vector of shared pointers to the user-defined type were
\* looked up: its name ends with "[]", its size is dynamic and it is not
\* built-in
C13_Witness ==
    /\ ret.op = "type_traits"
    /\ ret.type = <<"std::vector", "std::shared_ptr", "custom_type">>
    /\ ret.val.traits.name = <<"code.custom_type", "[]">>
    /\ ret.val.traits.oid = null_oid
    /\ ret.val.dynamic = <<TRUE>>
    /\ ~ret.val.built_in

----------------------------------------------------------------------------
(* Properties of the readers of one OID map, checked under SpecReaders *)

\* the map the population left: per registered type the oid set last
PopulatedMap == [T \in registered |-> LatestSet(T)]

\* what the read of reader r returns when no other read runs with it
Sequential(r) ==
    LET oidOf == IF rd[r].type = <<"int64_t">> THEN 20
                 ELSE PopulatedMap[rd[r].type]
    IN  CASE rd[r].op = "type_oid" -> oidOf
          [] rd[r].op = "accepts_oid" -> (oidOf = rd[r].oid)
          [] rd[r].op = "empty" -> (registered = {})

\* C14: type_oid, accepts_oid and empty leave the OID map as set_type_oid
\* populated it, and however the reads of the readers interleave, with no
\* set_type_oid after the first read, every finished read has returned what
\* the same read returns when it runs alone on the populated map.
C14_ReadersSeeThePopulatedMap ==
    /\ impl = PopulatedMap
    /\ \A r \in Readers : rd[r].pc = "done" => rd[r].val = Sequential(r)

\* one reader is between reading and returning while another one has
\* finished accepts_oid with TRUE on an oid that set_type_oid stored
C14_Witness ==
    \E r, q \in Readers :
        /\ r # q
        /\ rd[r].pc = "read"
        /\ rd[r].op = "type_oid"
        /\ rd[r].type = <<"custom_type">>
        /\ rd[q].pc = "done"
        /\ rd[q].op = "accepts_oid"
        /\ rd[q].oid # null_oid
        /\ rd[q].val = TRUE
        /\ written[<<"custom_type">>] = <<rd[q].oid>>

====
